---------------------------- MODULE Spec2Model ----------------------------
(***************************************************************************)
(* Expense analytics and budget-enforcement core of the expense tracker.  *)
(*                                                                         *)
(* Source: "src/src/business logic implementation.py"                      *)
(*   services/expense_service.py      ExpenseService                       *)
(*   validators/expense_validator.py  ExpenseValidator                     *)
(*   business_logic/expense_logic.py  ExpenseBusinessLogic                 *)
(*   processors/expense_processor.py  ExpenseProcessor                     *)
(*                                                                         *)
(* Python values are modelled as tagged records:                           *)
(*   Decimal   [coef, exp]            value = coef * 10^exp                *)
(*   datetime  [month, day, tod]      tod = time of day                    *)
(*   a dict    a function whose DOMAIN is the set of keys present          *)
(***************************************************************************)
EXTENDS Integers, Sequences, FiniteSets, TLC

VARIABLES
    expenses,   \* ExpenseRepository: the persisted expenses, in insertion order
    calls,      \* the create_expense coroutines, in the order they were begun
    now,        \* the wall clock read by datetime.now()
    categories, \* CategoryRepository: (user, key) -> Category or None
    praw,       \* the raw record the validator and the normalizer are applied to
    pres,       \* what validate_expense_data raised, or None
    pproc,      \* what _process_expense_data returned
    ppc,        \* "start", "validated" or "processed" ("off" under Spec)
    query,      \* the get_user_expenses coroutine
    parg,       \* the arguments summarize, analyze or categorize is applied to
    pout,       \* what it returned or raised
    lpc         \* "start" or "done" ("off" under the other specifications)

vars == <<expenses, calls, now, categories, praw, pres, pproc, ppc, query, parg, pout, lpc>>

svcVars == <<expenses, calls, now, categories>>
pureVars == <<praw, pres, pproc, ppc>>
fnVars == <<parg, pout, lpc>>
auxVars == <<query, parg, pout, lpc>>

None == [t |-> "None"]

-----------------------------------------------------------------------------
(* decimal.Decimal                                                         *)

RECURSIVE Pow10(_)
Pow10(n) == IF n <= 0 THEN 1 ELSE 10 * Pow10(n - 1)

Min(a, b) == IF a <= b THEN a ELSE b

Dec(c, e) == [coef |-> c, exp |-> e]

\* coefficient of d when written with exponent e (e <= d.exp)
CoefAt(d, e) == d.coef * Pow10(d.exp - e)

\* Decimal.__add__: exact, the result takes the smaller exponent
DecAdd(a, b) ==
    LET e == Min(a.exp, b.exp)
    IN  Dec(CoefAt(a, e) + CoefAt(b, e), e)

\* Decimal.__gt__ / __le__: numeric comparison
DecGT(a, b) ==
    LET e == Min(a.exp, b.exp)
    IN  CoefAt(a, e) > CoefAt(b, e)

DecLE(a, b) == ~DecGT(a, b)

\* Decimal.__bool__: a zero of any exponent is falsy
DecTruthy(d) == d.coef # 0

\* round(Decimal, 2): quantize to exponent -2, ROUND_HALF_EVEN
DecRound2(d) ==
    IF d.exp >= -2
    THEN Dec(CoefAt(d, -2), -2)
    ELSE LET div == Pow10(-2 - d.exp)
             q == d.coef \div div
             r == d.coef % div
         IN  Dec(IF 2 * r > div \/ (2 * r = div /\ q % 2 = 1) THEN q + 1 ELSE q, -2)

\* Decimal(str(x)): x is a number or a numeric string (t = "num"), or text
\* that is no number (t = "text"), for which decimal.InvalidOperation is raised
ParseDecimal(x) ==
    IF x.t = "num" THEN [ok |-> TRUE, d |-> x.d] ELSE [ok |-> FALSE, d |-> Dec(0, 0)]

Num(c, e) == [t |-> "num", d |-> Dec(c, e)]
Text(s) == [t |-> "text", s |-> s]

-----------------------------------------------------------------------------
(* datetime                                                                *)

DT(m, d, h) == [month |-> m, day |-> d, tod |-> h]

\* datetime ordering
DTLess(a, b) ==
    \/ a.month < b.month
    \/ a.month = b.month /\ a.day < b.day
    \/ a.month = b.month /\ a.day = b.day /\ a.tod < b.tod

\* a str date: ISO text of a datetime (t = "iso") or text that is no date
\* (t = "text"); a typed date: t = "datetime"
IsStr(x) == x.t \in {"iso", "text", "str"}

\* datetime.fromisoformat: ValueError on text that is no ISO date
FromIsoFormat(x) ==
    IF x.t = "iso" THEN [ok |-> TRUE, dt |-> x.dt] ELSE [ok |-> FALSE, dt |-> DT(0, 0, 0)]

Iso(m, d, h) == [t |-> "iso", dt |-> DT(m, d, h)]
Typed(m, d, h) == [t |-> "datetime", dt |-> DT(m, d, h)]

-----------------------------------------------------------------------------
(* str                                                                     *)

\* a str is [t |-> "str", s |-> <<characters>>]
Str(chars) == [t |-> "str", s |-> chars]

Whitespace == {" "}

RECURSIVE LStrip(_)
LStrip(s) == IF s # <<>> /\ Head(s) \in Whitespace THEN LStrip(Tail(s)) ELSE s

RECURSIVE RStrip(_)
RStrip(s) ==
    IF s # <<>> /\ s[Len(s)] \in Whitespace THEN RStrip(SubSeq(s, 1, Len(s) - 1)) ELSE s

\* str.strip()
Strip(s) == RStrip(LStrip(s))

UpperCase ==
    <<"A", "B", "C", "D", "E", "F", "G", "H", "I", "J", "K", "L", "M", 
      "N", "O", "P", "Q", "R", "S", "T", "U", "V", "W", "X", "Y", "Z">>

LowerCase ==
    <<"a", "b", "c", "d", "e", "f", "g", "h", "i", "j", "k", "l", "m", 
      "n", "o", "p", "q", "r", "s", "t", "u", "v", "w", "x", "y", "z">>

LowerChar(c) ==
    IF \E i \in 1..Len(UpperCase) : UpperCase[i] = c
    THEN LowerCase[CHOOSE i \in 1..Len(UpperCase) : UpperCase[i] = c]
    ELSE c

\* str.lower()
Lower(s) == [i \in 1..Len(s) |-> LowerChar(s[i])]

-----------------------------------------------------------------------------
(* validators/expense_validator.py                                         *)

REQUIRED_FIELDS == <<"amount", "category", "date", "description">>
MAX_DESCRIPTION_LENGTH == 500
MAX_TAGS == 10

\* a raised exception: its type, its message and the message's argument
Exc(type, msg, arg) == [t |-> "exc", type |-> type, msg |-> msg, arg |-> arg]

IsExc(r) == r.t = "exc"

\* index of the first required field that is no key of the dict, 0 if none
FirstMissing(expense_data) ==
    LET miss == {i \in 1..Len(REQUIRED_FIELDS) : REQUIRED_FIELDS[i] \notin DOMAIN expense_data}
    IN  IF miss = {} THEN 0 ELSE CHOOSE i \in miss : \A j \in miss : i <= j

\* Faulty variant of ValidateAmount: the amount is parsed but its sign is not checked
ValidateAmountUnsigned(expense_data) ==
    IF ~ParseDecimal(expense_data["amount"]).ok
    THEN Exc("InvalidOperation", "ConversionSyntax", "")
    ELSE None

\* the try block around the amount: InvalidExpenseError when amount <= 0;
\* the except clause names ValueError and TypeError only, so the
\* decimal.InvalidOperation that Decimal() raises on text is not caught
ValidateAmount(expense_data) ==
    LET p == ParseDecimal(expense_data["amount"])
    IN  IF ~p.ok
        THEN Exc("InvalidOperation", "ConversionSyntax", "")
        ELSE IF p.d.coef <= 0
             THEN Exc("InvalidExpenseError", "Amount must be greater than 0", "")
             ELSE None

ValidateDate(expense_data) ==
    IF IsStr(expense_data["date"]) /\ ~FromIsoFormat(expense_data["date"]).ok
    THEN Exc("InvalidExpenseError", "Invalid date format", "")
    ELSE None

ValidateDescription(expense_data) ==
    IF Len(expense_data["description"].s) > MAX_DESCRIPTION_LENGTH
    THEN Exc("InvalidExpenseError", "Description exceeds maximum length", "")
    ELSE None

\* the loop over the tags: the first tag that is no str or is blank
ValidateEachTag(items) ==
    LET bad == {i \in 1..Len(items) : items[i].t # "str" \/ Strip(items[i].s) = <<>>}
    IN  IF bad = {}
        THEN None
        ELSE LET i == CHOOSE k \in bad : \A j \in bad : k <= j
             IN  IF items[i].t # "str"
                 THEN Exc("InvalidExpenseError", "Tags must be strings", "")
                 ELSE Exc("InvalidExpenseError", "Empty tags are not allowed", "")

ValidateTags(expense_data) ==
    IF "tags" \notin DOMAIN expense_data
    THEN None
    ELSE LET tags == expense_data["tags"]
         IN  IF tags.t # "list"
             THEN Exc("InvalidExpenseError", "Tags must be a list", "")
             ELSE IF Len(tags.items) > MAX_TAGS
                  THEN Exc("InvalidExpenseError", "Maximum number of tags exceeded", "")
                  ELSE ValidateEachTag(tags.items)

\* ExpenseValidator.validate_expense_data: None, or the first exception raised
validate_expense_data(expense_data) ==
    IF FirstMissing(expense_data) # 0
    THEN Exc("InvalidExpenseError", "Missing required field",
             REQUIRED_FIELDS[FirstMissing(expense_data)])
    ELSE IF IsExc(ValidateAmount(expense_data))
    THEN ValidateAmount(expense_data)
    ELSE IF IsExc(ValidateDate(expense_data))
    THEN ValidateDate(expense_data)
    ELSE IF IsExc(ValidateDescription(expense_data))
    THEN ValidateDescription(expense_data)
    ELSE ValidateTags(expense_data)

-----------------------------------------------------------------------------
(* ExpenseService._process_expense_data                                    *)

\* Faulty variant of ProcessTags: a tag already in the result is left out
ProcessTagsDistinct(tags) ==
    LET all == [i \in 1..Len(tags.items) |-> Str(Lower(Strip(tags.items[i].s)))]
        firsts == SelectSeq([i \in 1..Len(all) |-> i],
                            LAMBDA i : \A j \in 1..(i - 1) : all[j] # all[i])
    IN  [t |-> "list", items |-> [k \in 1..Len(firsts) |-> all[firsts[k]]]]

ProcessTags(tags) ==
    [t |-> "list", items |-> [i \in 1..Len(tags.items) |-> Str(Lower(Strip(tags.items[i].s)))]]

\* a copy of the dict with the amount rounded, a str date parsed and the
\* tags stripped and lower-cased
_process_expense_data(expense_data) ==
    [k \in DOMAIN expense_data |->
        CASE k = "amount" ->
                [t |-> "Decimal", d |-> DecRound2(ParseDecimal(expense_data["amount"]).d)]
          [] k = "date" ->
                IF IsStr(expense_data["date"])
                THEN [t |-> "datetime", dt |-> FromIsoFormat(expense_data["date"]).dt]
                ELSE expense_data["date"]
          [] k = "tags" -> ProcessTags(expense_data["tags"])
          [] OTHER -> expense_data[k]]

\* Faulty variant of RawAfterProcess: the caller's dict itself is normalized
RawAfterProcessInPlace(expense_data) == _process_expense_data(expense_data)

\* the caller's dict after _process_expense_data: processed is a copy
\* (expense_data.copy()) and every assignment, the new tags list included,
\* goes to the copy
RawAfterProcess(expense_data) == expense_data

-----------------------------------------------------------------------------
(* The repositories: external collaborators, known by their interface      *)

Users == {"u1"}
CategoryKeys == {"Food", "Misc", "Zero", "Ghost"}

Category(name, limit) == [t |-> "Category", name |-> name, budget_limit |-> limit]

\* repository.get_category(user_id, key)
get_category(user_id, key) == categories[<<user_id, key>>]

RECURSIVE SumAmounts(_)
SumAmounts(es) ==
    IF es = <<>> THEN Dec(0, 0) ELSE DecAdd(Head(es).data["amount"].d, SumAmounts(Tail(es)))

\* the persisted expenses of a user and category dated at or after start
ExpensesSince(user_id, key, start) ==
    SelectSeq(expenses, LAMBDA e :
        /\ e.user_id = user_id
        /\ e.data["category"] = key
        /\ ~DTLess(e.data["date"].dt, start))

\* repository.get_category_total(user_id, key, start)
get_category_total(user_id, key, start) == SumAmounts(ExpensesSince(user_id, key, start))

\* repository.get_by_user(user_id, start_date, end_date, category): the user's
\* expenses within the given dates (both inclusive) and of the given category,
\* a filter that is None not applying.  The Optional[str] category is None or
\* Key(k).
Key(k) == [t |-> "key", k |-> k]

get_by_user(user_id, start_date, end_date, category) ==
    SelectSeq(expenses, LAMBDA e :
        /\ e.user_id = user_id
        /\ start_date # None => ~DTLess(e.data["date"].dt, start_date)
        /\ end_date # None => ~DTLess(end_date, e.data["date"].dt)
        /\ category # None => e.data["category"] = category.k)

\* repository.create(user_id, processed): the stored Expense
NewExpense(user_id, processed) ==
    [t |-> "Expense", id |-> Len(expenses) + 1, user_id |-> user_id, data |-> processed]

-----------------------------------------------------------------------------
(* services/expense_service.py                                             *)

MaxCalls == 2
MaxMonth == 2

Calls == 1..MaxCalls

\* datetime.replace(day=1): the month and the time of day are kept
ReplaceDay1(dt) == [dt EXCEPT !.day = 1]

Idle ==
    [pc |-> "idle", user_id |-> "", data |-> <<>>, category |-> None, start |-> None,
     total |-> None, processed |-> None, result |-> None, trace |-> <<>>,
     raised |-> None]

\* Python truthiness of category.budget_limit: None and a zero Decimal are falsy
Truthy(x) == x # None /\ DecTruthy(x)

\* Faulty variant of ExceedsLimit: the candidate amount is left out of the comparison
ExceedsLimitWithoutAmount(current_total, amount, budget_limit) ==
    DecGT(current_total, budget_limit)

\* current_total + Decimal(amount) > category.budget_limit
ExceedsLimit(current_total, amount, budget_limit) ==
    DecGT(DecAdd(current_total, amount), budget_limit)

Finish(c, result) ==
    calls' = [calls EXCEPT ![c].pc = "done", ![c].result = result]

\* create_expense up to its first await: validation, then the category lookup
CreateExpense(c, user_id, expense_data) ==
    /\ calls[c].pc = "idle"
    /\ \A d \in Calls : d < c => calls[d].pc # "idle"
    /\ LET v == validate_expense_data(expense_data)
           begun == [Idle EXCEPT !.user_id = user_id, !.data = expense_data]
       IN  IF IsExc(v)
           THEN calls' = [calls EXCEPT ![c] = [begun EXCEPT !.pc = "done", !.result = v]]
           ELSE calls' = [calls EXCEPT ![c] = [begun EXCEPT !.pc = "get_category",
                                                            !.trace = <<"get_category">>]]
    /\ UNCHANGED <<expenses, now, categories, pureVars, auxVars>>

\* Faulty variant of GetCategoryReturns: a category that is not found is taken as one
\* without a limit
GetCategoryReturnsUnchecked(c) ==
    /\ calls[c].pc = "get_category"
    /\ LET category == get_category(calls[c].user_id, calls[c].data["category"])
       IN  IF category # None /\ Truthy(category.budget_limit)
           THEN calls' = [calls EXCEPT ![c].pc = "get_category_total",
                                       ![c].category = category,
                                       ![c].start = ReplaceDay1(now),
                                       ![c].trace = Append(@, "get_category_total")]
           ELSE calls' = [calls EXCEPT ![c].pc = "create",
                                       ![c].category = category,
                                       ![c].processed = _process_expense_data(calls[c].data),
                                       ![c].trace = Append(@, "create")]
    /\ UNCHANGED <<expenses, now, categories, pureVars, auxVars>>

\* _check_budget_limits resumes with the category
GetCategoryReturns(c) ==
    /\ calls[c].pc = "get_category"
    /\ LET category == get_category(calls[c].user_id, calls[c].data["category"])
       IN  IF category = None
           THEN Finish(c, Exc("CategoryNotFoundError", "Category not found",
                              calls[c].data["category"]))
           ELSE IF Truthy(category.budget_limit)
           THEN calls' = [calls EXCEPT ![c].pc = "get_category_total",
                                       ![c].category = category,
                                       ![c].start = ReplaceDay1(now),
                                       ![c].trace = Append(@, "get_category_total")]
           ELSE calls' = [calls EXCEPT ![c].pc = "create",
                                       ![c].category = category,
                                       ![c].processed = _process_expense_data(calls[c].data),
                                       ![c].data = RawAfterProcess(calls[c].data),
                                       ![c].trace = Append(@, "create")]
    /\ UNCHANGED <<expenses, now, categories, pureVars, auxVars>>

\* Faulty variant of BudgetError: the message does not name the category
BudgetErrorUnnamed(category) ==
    Exc("BudgetLimitExceededError", "This expense would exceed the budget limit", "")

\* BudgetLimitExceededError(f"This expense would exceed the budget limit for
\* category {category.name}"): arg is what the message interpolates
BudgetError(category) ==
    Exc("BudgetLimitExceededError", "This expense would exceed the budget limit",
        category.name)

\* _check_budget_limits resumes with the total; on success create is called
GetCategoryTotalReturns(c) ==
    /\ calls[c].pc = "get_category_total"
    /\ LET current_total ==
               get_category_total(calls[c].user_id, calls[c].data["category"], calls[c].start)
       IN  IF ExceedsLimit(current_total, ParseDecimal(calls[c].data["amount"]).d,
                           calls[c].category.budget_limit)
           THEN calls' = [calls EXCEPT ![c].pc = "done",
                                       ![c].total = current_total,
                                       ![c].result = BudgetError(calls[c].category)]
           ELSE calls' = [calls EXCEPT ![c].pc = "create",
                                       ![c].total = current_total,
                                       ![c].processed = _process_expense_data(calls[c].data),
                                       ![c].data = RawAfterProcess(calls[c].data),
                                       ![c].trace = Append(@, "create")]
    /\ UNCHANGED <<expenses, now, categories, pureVars, auxVars>>

\* repository.create returns the stored expense, which create_expense returns
CreateReturns(c) ==
    /\ calls[c].pc = "create"
    /\ LET expense == NewExpense(calls[c].user_id, calls[c].processed)
       IN  /\ expenses' = Append(expenses, expense)
           /\ Finish(c, expense)
    /\ UNCHANGED <<now, categories, pureVars, auxVars>>

\* Faulty variant of Reraise: the failure is wrapped into a validation error
ReraiseConverted(e) == Exc("InvalidExpenseError", e.msg, e.arg)

\* except Exception as e: logger.error(...); raise -- the caught exception itself
\* leaves create_expense
Reraise(e) == e

\* Faulty variant of RepositoryRaises: a create that fails has stored the record
RepositoryRaisesAfterWrite(c) ==
    /\ calls[c].pc \in {"get_category", "get_category_total", "create"}
    /\ LET e == Exc("RepositoryError", "storage failure", calls[c].pc)
       IN  calls' = [calls EXCEPT ![c].pc = "done", ![c].raised = e,
                                  ![c].result = Reraise(e)]
    /\ expenses' = IF calls[c].pc = "create"
                   THEN Append(expenses, NewExpense(calls[c].user_id, calls[c].processed))
                   ELSE expenses
    /\ UNCHANGED <<now, categories, pureVars, auxVars>>

\* a repository call raises; the except clause logs and re-raises.  The field
\* raised keeps what the repository raised, result what create_expense ends with.
RepositoryRaises(c) ==
    /\ calls[c].pc \in {"get_category", "get_category_total", "create"}
    /\ LET e == Exc("RepositoryError", "storage failure", calls[c].pc)
       IN  calls' = [calls EXCEPT ![c].pc = "done", ![c].raised = e,
                                  ![c].result = Reraise(e)]
    /\ UNCHANGED <<expenses, now, categories, pureVars, auxVars>>

\* a Python list
List(items) == [t |-> "list", items |-> items]

NoQuery ==
    [pc |-> "idle", args |-> <<>>, passed |-> <<>>, result |-> None, raised |-> None]

\* Faulty variant of GetUserExpenses: the two dates change places
GetUserExpensesSwapped(user_id, start_date, end_date, category) ==
    /\ query.pc # "get_by_user"
    /\ query' = [NoQuery EXCEPT !.pc = "get_by_user",
                                !.args = <<user_id, start_date, end_date, category>>,
                                !.passed = <<user_id, end_date, start_date, category>>]
    /\ UNCHANGED <<svcVars, pureVars, fnVars>>

\* get_user_expenses up to its await: the four arguments go to get_by_user
GetUserExpenses(user_id, start_date, end_date, category) ==
    /\ query.pc # "get_by_user"
    /\ query' = [NoQuery EXCEPT !.pc = "get_by_user",
                                !.args = <<user_id, start_date, end_date, category>>,
                                !.passed = <<user_id, start_date, end_date, category>>]
    /\ UNCHANGED <<svcVars, pureVars, fnVars>>

\* repository.get_by_user returns; get_user_expenses returns that list
GetByUserReturns ==
    /\ query.pc = "get_by_user"
    /\ query' = [query EXCEPT !.pc = "done",
                              !.result = List(get_by_user(query.passed[1], query.passed[2],
                                                            query.passed[3], query.passed[4]))]
    /\ UNCHANGED <<svcVars, pureVars, fnVars>>

\* repository.get_by_user raises; the except clause logs and re-raises
GetByUserRaises ==
    /\ query.pc = "get_by_user"
    /\ LET e == Exc("RepositoryError", "storage failure", "get_by_user")
       IN  query' = [query EXCEPT !.pc = "done", !.raised = e, !.result = Reraise(e)]
    /\ UNCHANGED <<svcVars, pureVars, fnVars>>

\* time passes: a month later
Tick ==
    /\ now.month < MaxMonth
    /\ now' = [now EXCEPT !.month = @ + 1]
    /\ UNCHANGED <<expenses, calls, categories, pureVars, auxVars>>

-----------------------------------------------------------------------------
(* The calls made on the service                                           *)

ShortDescription == Str(<<"x">>)

Raw(a, k, d) == [amount |-> a, category |-> k, date |-> d, description |-> ShortDescription]

\* amounts below and above what the Food limit leaves; an expense dated in
\* another month, of exactly what the limit leaves; a limit of 0; no limit,
\* with tags; no category; amount 0
SvcRaws ==
    {Raw(Num(40, 0), "Food", Iso(1, 2, 0)),
     Raw(Num(6000, -2), "Food", Iso(1, 2, 0)),
     Raw(Num(50, 0), "Food", Typed(2, 2, 1)),
     Raw(Num(40, 0), "Zero", Iso(1, 2, 0)),
     [amount |-> Num(4, -3), category |-> "Misc", date |-> Iso(1, 2, 0),
      description |-> ShortDescription,
      tags |-> [t |-> "list", items |-> <<Str(<<" ", "F", "b">>), Str(<<"f", "b">>)>>]],
     Raw(Num(40, 0), "Ghost", Iso(1, 2, 0)),
     Raw(Num(0, 0), "Food", Iso(1, 2, 0))}

InitCategories ==
    [uk \in (Users \cup {"u2"}) \X CategoryKeys |->
        CASE uk[2] = "Food" -> Category("Food", Dec(20000, -2))
          [] uk[2] = "Misc" -> Category("Misc", None)
          [] uk[2] = "Zero" -> Category("Zero", Dec(0, -2))
          [] OTHER -> None]

Stored(id, user_id, key, cents, dt) ==
    [t |-> "Expense", id |-> id, user_id |-> user_id,
     data |-> [amount |-> [t |-> "Decimal", d |-> Dec(cents, -2)], category |-> key,
               date |-> [t |-> "datetime", dt |-> dt], description |-> ShortDescription]]

InitExpenses ==
    <<Stored(1, "u1", "Food", 15000, DT(1, 2, 0)), Stored(2, "u2", "Food", 3000, DT(1, 2, 0))>>

-----------------------------------------------------------------------------
(* The pure functions, applied to one raw record                           *)

Chars(n) == [i \in 1..n |-> "x"]

PureAmounts ==
    {Num(0, 0), Num(-5, 0), Text("abc"), Num(1, -2), Num(4, -3), Num(5, -3), Num(15, -3),
     Num(125, -3), Num(135, -3), Num(51, -4), Num(1250, -4), Num(45, 0), Num(4000, -2)}

PureDates == {Iso(1, 1, 0), Text("no date"), Typed(1, 2, 1)}

PureDescriptions ==
    {Str(Chars(1)), Str(Chars(MAX_DESCRIPTION_LENGTH)), Str(Chars(MAX_DESCRIPTION_LENGTH + 1))}


PureTags ==
    {List(<<>>),
     List(<<Str(<<" ", "F", "b", " ">>), Str(<<"f", "b">>), Str(<<"A">>)>>),
     List([i \in 1..MAX_TAGS |-> Str(<<"a">>)]),
     List([i \in 1..(MAX_TAGS + 1) |-> Str(<<"a">>)]),
     List([i \in 1..(MAX_TAGS + 1) |-> Str(<<" ">>)]),
     List(<<Str(<<"a">>), [t |-> "int", v |-> 7], Str(<<>>)>>),
     List(<<Str(<<"a">>), Str(<<" ", " ">>), [t |-> "int", v |-> 7]>>),
     [t |-> "tuple", items |-> <<Str(<<"a">>)>>],
     [t |-> "tuple", items |-> [i \in 1..(MAX_TAGS + 1) |-> Str(<<"a">>)]]}

FullRaws ==
    {[amount |-> a, category |-> "Food", date |-> d, description |-> s] :
        a \in PureAmounts, d \in PureDates, s \in PureDescriptions}
    \cup {[amount |-> a, category |-> "Food", date |-> d, description |-> s, tags |-> g] :
        a \in PureAmounts, d \in PureDates, s \in PureDescriptions, g \in PureTags}

\* the dict without the keys in drop
Without(raw, drop) == [k \in (DOMAIN raw) \ drop |-> raw[k]]

PartialRaws ==
    {Without(r, drop) :
        r \in {x \in FullRaws : /\ x["amount"] \in {Num(0, 0), Num(1, -2)}
                                /\ x["date"] \in {Iso(1, 1, 0), Text("no date")}
                                /\ Len(x["description"].s) # MAX_DESCRIPTION_LENGTH
                                /\ ("tags" \in DOMAIN x => x["tags"] = List(<<>>))},
        drop \in (SUBSET {"amount", "category", "date", "description"}) \ {{}}}

PureRaws == FullRaws \cup PartialRaws

\* the filters given to get_user_expenses: none; a category and a start date;
\* an end date before every persisted expense
QueryFilters ==
    {<<None, None, None>>, <<DT(1, 2, 1), None, Key("Food")>>, <<None, DT(1, 1, 0), None>>}

FnIdle ==
    /\ parg = <<>>
    /\ pout = None
    /\ lpc = "off"

PureIdle ==
    /\ praw = <<>>
    /\ pres = None
    /\ pproc = None
    /\ ppc = "off"

Init ==
    /\ expenses = InitExpenses
    /\ calls = [c \in Calls |-> Idle]
    /\ now = DT(1, 2, 1)
    /\ categories = InitCategories
    /\ PureIdle
    /\ query = NoQuery
    /\ FnIdle

Next ==
    \/ \E c \in Calls, u \in Users, r \in SvcRaws : CreateExpense(c, u, r)
    \/ \E c \in Calls : GetCategoryReturns(c)
    \/ \E c \in Calls : GetCategoryTotalReturns(c)
    \/ \E c \in Calls : CreateReturns(c)
    \/ \E c \in Calls : RepositoryRaises(c)
    \/ Tick

Spec == Init /\ [][Next]_vars

\* the records given to create_expense next to get_user_expenses: within the
\* limit, beyond it, of no category, invalid
RWRaws ==
    {r \in SvcRaws : /\ r["category"] \in {"Food", "Ghost"}
                     /\ r["date"] = Iso(1, 2, 0) \/ r["amount"] = Num(0, 0)}

\* create_expense and get_user_expenses calls, interleaved
NextRW ==
    \/ \E c \in Calls, u \in Users, r \in RWRaws : CreateExpense(c, u, r)
    \/ \E c \in Calls : GetCategoryReturns(c)
    \/ \E c \in Calls : GetCategoryTotalReturns(c)
    \/ \E c \in Calls : CreateReturns(c)
    \/ \E c \in Calls : RepositoryRaises(c)
    \/ \E u \in Users, f \in QueryFilters : GetUserExpenses(u, f[1], f[2], f[3])
    \/ GetByUserReturns
    \/ GetByUserRaises

SpecRW == Init /\ [][NextRW]_vars

\* a caller that awaits each create_expense before it makes the next call
CreateExpenseSerial(c, user_id, expense_data) ==
    /\ \A d \in Calls : calls[d].pc \in {"idle", "done"}
    /\ CreateExpense(c, user_id, expense_data)

\* create_expense calls made one after the other
NextSerial ==
    \/ \E c \in Calls, u \in Users, r \in SvcRaws : CreateExpenseSerial(c, u, r)
    \/ \E c \in Calls : GetCategoryReturns(c)
    \/ \E c \in Calls : GetCategoryTotalReturns(c)
    \/ \E c \in Calls : CreateReturns(c)
    \/ \E c \in Calls : RepositoryRaises(c)
    \/ Tick

SpecSerial == Init /\ [][NextSerial]_vars


PureInit ==
    /\ expenses = InitExpenses
    /\ calls = [c \in Calls |-> Idle]
    /\ now = DT(1, 2, 1)
    /\ categories = InitCategories
    /\ praw \in PureRaws
    /\ pres = None
    /\ pproc = None
    /\ ppc = "start"
    /\ query = NoQuery
    /\ FnIdle

\* validator.validate_expense_data(expense_data)
PValidate ==
    /\ ppc = "start"
    /\ pres' = validate_expense_data(praw)
    /\ ppc' = "validated"
    /\ UNCHANGED <<praw, pproc, svcVars, auxVars>>

\* _process_expense_data(expense_data), which create_expense applies to
\* validated data only
PProcess ==
    /\ ppc = "validated"
    /\ pres = None
    /\ pproc' = _process_expense_data(praw)
    /\ praw' = RawAfterProcess(praw)
    /\ ppc' = "processed"
    /\ UNCHANGED <<pres, svcVars, auxVars>>

PureNext == PValidate \/ PProcess

SpecPure == PureInit /\ [][PureNext]_vars

-----------------------------------------------------------------------------
(* business_logic/expense_logic.py  ExpenseBusinessLogic._generate_summary *)

\* the service is at rest: nothing begun, the repositories as constructed
SvcIdle ==
    /\ expenses = InitExpenses
    /\ calls = [c \in Calls |-> Idle]
    /\ now = DT(1, 2, 1)
    /\ categories = InitCategories
    /\ PureIdle
    /\ query = NoQuery

\* an Expense object as the summary reads it
ExpenseObj(amount, category, tags, date) ==
    [t |-> "Expense", amount |-> amount, category |-> category, tags |-> tags, date |-> date]

\* date.strftime('%Y-%m-%d'): the time of day is dropped
StrfDate(dt) == <<dt.month, dt.day>>

\* Faulty variant of DictAdd: the entry is assigned, not added to
DictAssign(d, k, amount) ==
    [x \in DOMAIN d \cup {k} |-> IF x = k THEN amount ELSE d[x]]

\* if k not in d: d[k] = Decimal('0.00')
\* d[k] += amount
DictAdd(d, k, amount) ==
    [x \in DOMAIN d \cup {k} |->
        IF x # k THEN d[x]
        ELSE DecAdd(IF k \in DOMAIN d THEN d[k] ELSE Dec(0, -2), amount)]

\* for tag in expense.tags: tags[tag] += expense.amount
RECURSIVE AddTags(_, _, _)
AddTags(tags, ts, amount) ==
    IF ts = <<>> THEN tags ELSE AddTags(DictAdd(tags, Head(ts), amount), Tail(ts), amount)

\* Faulty variant of UpdateSummary: the total is added to once per tag
UpdateSummaryTotalPerTag(summary, expense) ==
    [summary EXCEPT
        !.total = IF expense.tags = <<>> THEN @ ELSE DecAdd(@, expense.amount),
        !.categories = DictAdd(@, expense.category, expense.amount),
        !.tags = AddTags(@, expense.tags, expense.amount),
        !.daily_totals = DictAdd(@, StrfDate(expense.date), expense.amount)]

\* the body of the loop over the expenses
UpdateSummary(summary, expense) ==
    [summary EXCEPT
        !.total = DecAdd(@, expense.amount),
        !.categories = DictAdd(@, expense.category, expense.amount),
        !.tags = AddTags(@, expense.tags, expense.amount),
        !.daily_totals = DictAdd(@, StrfDate(expense.date), expense.amount)]

RECURSIVE SummaryLoop(_, _)
SummaryLoop(summary, es) ==
    IF es = <<>> THEN summary ELSE SummaryLoop(UpdateSummary(summary, Head(es)), Tail(es))

\* Faulty variant of _generate_summary: count starts at zero and is never set
_generate_summary_uncounted(es) ==
    SummaryLoop([total |-> Dec(0, -2), categories |-> <<>>, tags |-> <<>>,
                 daily_totals |-> <<>>, count |-> 0], es)

_generate_summary(es) ==
    SummaryLoop([total |-> Dec(0, -2), categories |-> <<>>, tags |-> <<>>,
                 daily_totals |-> <<>>, count |-> Len(es)], es)

MaxLen == 3

\* the sequences over S of length at most n
SeqsUpTo(S, n) == UNION {[1..k -> S] : k \in 0..n}

\* the expenses summarised: two of a day and a category, one of them with a
\* tag twice and a shorter amount; one without tags; one of three decimals
SummaryPool ==
    {ExpenseObj(Dec(1000, -2), "Food", <<"a", "b">>, DT(1, 2, 0)),
     ExpenseObj(Dec(55, -1), "Food", <<"a", "a">>, DT(1, 2, 1)),
     ExpenseObj(Dec(20, 0), "Misc", <<>>, DT(1, 3, 0)),
     ExpenseObj(Dec(5, -3), "Misc", <<"b">>, DT(2, 1, 0))}

SummaryInit ==
    /\ SvcIdle
    /\ parg \in {[expenses |-> es] : es \in SeqsUpTo(SummaryPool, MaxLen)}
    /\ pout = None
    /\ lpc = "start"

\* _generate_summary(expenses)
Summarize ==
    /\ lpc = "start"
    /\ pout' = _generate_summary(parg.expenses)
    /\ lpc' = "done"
    /\ UNCHANGED <<parg, svcVars, pureVars, query>>

SummaryNext == Summarize

SpecSummary == SummaryInit /\ [][SummaryNext]_vars

-----------------------------------------------------------------------------
(* processors/expense_processor.py  ExpenseProcessor.analyze_spending_pattern *)

\* Decimal * int
DecMulInt(d, n) == Dec(d.coef * n, d.exp)

\* Decimal / int with a divisor that is not zero.  The quotient is kept as the
\* exact fraction num / den: the 28 significant digits the Decimal context
\* rounds it to lie far beyond the digits of the amounts it is compared with.
Quot(d, n) == [t |-> "Quotient", num |-> d, den |-> n]

\* Faulty variant of ExceedsTwice: whatever is above the average is flagged
ExceedsAverage(amount, total, count) ==
    DecGT(DecMulInt(amount, count), total)

\* Faulty variant of ExceedsTwice: twice the average is flagged too
ExceedsTwiceOrEqual(amount, total, count) ==
    ~DecGT(DecMulInt(total, 2), DecMulInt(amount, count))

\* amount > (total / count) * 2, for a count of at least one
ExceedsTwice(amount, total, count) ==
    DecGT(DecMulInt(amount, count), DecMulInt(total, 2))

\* Faulty variant of EmptyAnalysis: highest_expense starts as a zero expense
EmptyAnalysisZeroHighest ==
    [total_spent |-> Dec(0, -2), average_daily |-> Dec(0, -2),
     highest_expense |-> [amount |-> Dec(0, -2), category |-> "", date |-> None],
     most_frequent_category |-> None, category_distribution |-> <<>>,
     unusual_expenses |-> <<>>]

\* the analysis before the loop
EmptyAnalysis ==
    [total_spent |-> Dec(0, -2), average_daily |-> Dec(0, -2), highest_expense |-> None,
     most_frequent_category |-> None, category_distribution |-> <<>>,
     unusual_expenses |-> <<>>]

\* Faulty variant of Tally: an expense equal to the highest so far replaces it
TallyLastHighest(st, expense) ==
    LET amount == ParseDecimal(expense["amount"]).d
        category == expense["category"]
        seen == category \in DOMAIN st.category_counts
        highest == st.analysis.highest_expense
    IN  [analysis |->
            [st.analysis EXCEPT
                !.total_spent = DecAdd(@, amount),
                !.category_distribution = DictAdd(@, category, amount),
                !.highest_expense =
                    IF highest = None \/ ~DecGT(highest["amount"], amount)
                    THEN [amount |-> amount, category |-> category, date |-> expense["date"]]
                    ELSE @],
         category_counts |->
            [x \in DOMAIN st.category_counts \cup {category} |->
                IF x # category THEN st.category_counts[x]
                ELSE (IF seen THEN st.category_counts[x] ELSE 0) + 1],
         order |-> IF seen THEN st.order ELSE Append(st.order, category)]

\* the body of the first loop; order is the insertion order of category_counts
Tally(st, expense) ==
    LET amount == ParseDecimal(expense["amount"]).d
        category == expense["category"]
        seen == category \in DOMAIN st.category_counts
        highest == st.analysis.highest_expense
    IN  [analysis |->
            [st.analysis EXCEPT
                !.total_spent = DecAdd(@, amount),
                !.category_distribution = DictAdd(@, category, amount),
                !.highest_expense =
                    IF highest = None \/ DecGT(amount, highest["amount"])
                    THEN [amount |-> amount, category |-> category, date |-> expense["date"]]
                    ELSE @],
         category_counts |->
            [x \in DOMAIN st.category_counts \cup {category} |->
                IF x # category THEN st.category_counts[x]
                ELSE (IF seen THEN st.category_counts[x] ELSE 0) + 1],
         order |-> IF seen THEN st.order ELSE Append(st.order, category)]

RECURSIVE TallyLoop(_, _)
TallyLoop(st, es) ==
    IF es = <<>> THEN st ELSE TallyLoop(Tally(st, Head(es)), Tail(es))

\* Faulty variant of MostFrequent: the last key of the greatest count
MostFrequentLast(order, category_counts) ==
    LET best == CHOOSE i \in 1..Len(order) :
                    /\ \A j \in 1..Len(order) :
                           category_counts[order[j]] <= category_counts[order[i]]
                    /\ \A j \in (i + 1)..Len(order) :
                           category_counts[order[j]] < category_counts[order[i]]
    IN  order[best]

\* max(category_counts.items(), key=lambda x: x[1])[0]: the first key, in
\* insertion order, of the greatest count
MostFrequent(order, category_counts) ==
    LET best == CHOOSE i \in 1..Len(order) :
                    /\ \A j \in 1..Len(order) :
                           category_counts[order[j]] <= category_counts[order[i]]
                    /\ \A j \in 1..(i - 1) :
                           category_counts[order[j]] < category_counts[order[i]]
    IN  order[best]

\* the second loop: the expenses above twice the average of their category
Unusual(es, distribution, category_counts) ==
    LET flagged == SelectSeq(es, LAMBDA e :
                       ExceedsTwice(ParseDecimal(e["amount"]).d, distribution[e["category"]],
                                    category_counts[e["category"]]))
    IN  [i \in 1..Len(flagged) |->
            [amount |-> ParseDecimal(flagged[i]["amount"]).d,
             category |-> flagged[i]["category"],
             date |-> flagged[i]["date"],
             description |-> flagged[i]["description"]]]

analyze_spending_pattern(es, period_days) ==
    IF es = <<>> THEN EmptyAnalysis
    ELSE IF \E i \in 1..Len(es) : ~ParseDecimal(es[i]["amount"]).ok
    THEN Exc("InvalidOperation", "conversion syntax", "amount")
    ELSE LET st == TallyLoop([analysis |-> EmptyAnalysis, category_counts |-> <<>>,
                              order |-> <<>>], es)
             total == st.analysis.total_spent
         IN  IF period_days = 0
             THEN Exc(IF total.coef = 0 THEN "InvalidOperation" ELSE "DivisionByZero",
                      "division by zero", "period_days")
             ELSE [st.analysis EXCEPT
                      !.average_daily = Quot(total, period_days),
                      !.most_frequent_category = MostFrequent(st.order, st.category_counts),
                      !.unusual_expenses =
                          Unusual(es, st.analysis.category_distribution, st.category_counts)]

\* the expense dicts analysed: 10, 40 and 41 of one category, 40.0 of another,
\* an amount that is no number and a negative amount
AnalysisPool ==
    {Raw(Num(10, 0), "Food", Iso(1, 1, 0)),
     Raw(Num(40, 0), "Food", Iso(1, 2, 0)),
     Raw(Num(41, 0), "Food", Iso(1, 3, 0)),
     Raw(Num(400, -1), "Misc", Iso(1, 4, 0)),
     Raw(Text("abc"), "Misc", Iso(1, 5, 0)),
     Raw(Num(-10, 0), "Misc", Iso(1, 6, 0))}

Periods == {-1, 0, 1, 30}

AnalyzeInit ==
    /\ SvcIdle
    /\ parg \in {[expenses |-> es, period_days |-> p] :
                    es \in SeqsUpTo(AnalysisPool, MaxLen), p \in Periods}
    /\ pout = None
    /\ lpc = "start"

\* analyze_spending_pattern(expenses, period_days)
Analyze ==
    /\ lpc = "start"
    /\ pout' = analyze_spending_pattern(parg.expenses, parg.period_days)
    /\ lpc' = "done"
    /\ UNCHANGED <<parg, svcVars, pureVars, query>>

AnalyzeNext == Analyze

SpecAnalyze == AnalyzeInit /\ [][AnalyzeNext]_vars

-----------------------------------------------------------------------------
(* processors/expense_processor.py  ExpenseProcessor.categorize_expense    *)

\* needle in hay, for two strings
Contains(hay, needle) ==
    \E i \in 0..(Len(hay) - Len(needle)) : SubSeq(hay, i + 1, i + Len(needle)) = needle

\* the dict categories, in insertion order
Rules ==
    <<[category |-> "food",
       keywords |-> <<<<"r", "e", "s", "t", "a", "u", "r", "a", "n", "t">>,
                      <<"g", "r", "o", "c", "e", "r", "y">>,
                      <<"f", "o", "o", "d">>,
                      <<"m", "e", "a", "l">>>>],
      [category |-> "transport",
       keywords |-> <<<<"g", "a", "s">>,
                      <<"f", "u", "e", "l">>,
                      <<"t", "a", "x", "i">>,
                      <<"u", "b", "e", "r">>,
                      <<"t", "r", "a", "i", "n">>>>],
      [category |-> "utilities",
       keywords |-> <<<<"e", "l", "e", "c", "t", "r", "i", "c", "i", "t", "y">>,
                      <<"w", "a", "t", "e", "r">>,
                      <<"i", "n", "t", "e", "r", "n", "e", "t">>,
                      <<"p", "h", "o", "n", "e">>>>],
      [category |-> "entertainment",
       keywords |-> <<<<"m", "o", "v", "i", "e">>,
                      <<"g", "a", "m", "e">>,
                      <<"c", "o", "n", "c", "e", "r", "t">>,
                      <<"s", "h", "o", "w">>>>]>>

\* any(keyword in description for keyword in keywords)
AnyKeyword(description, keywords) ==
    \E k \in 1..Len(keywords) : Contains(description, keywords[k])

\* Faulty variant of IsMajor: an amount of 1000 counts as major
IsMajorFrom1000(amount) == ~DecGT(Dec(1000, 0), amount)

\* amount > 1000
IsMajor(amount) == DecGT(amount, Dec(1000, 0))

\* a returned str
Returned(v) == [t |-> "str", v |-> v]

\* Faulty variant of categorize_expense: the amount is looked at before the rules
categorize_expense_amount_first(expense_data) ==
    LET description == Lower(expense_data["description"].s)
        amount == ParseDecimal(expense_data["amount"])
        hits == {r \in 1..Len(Rules) : AnyKeyword(description, Rules[r].keywords)}
    IN  IF ~amount.ok THEN Exc("InvalidOperation", "conversion syntax", "amount")
        ELSE IF IsMajor(amount.d) THEN Returned("major_expense")
        ELSE IF hits # {} THEN Returned(Rules[CHOOSE r \in hits : \A q \in hits : r <= q].category)
        ELSE Returned("other")

\* Faulty variant of categorize_expense: the description is not lower-cased
categorize_expense_cased(expense_data) ==
    LET description == expense_data["description"].s
        amount == ParseDecimal(expense_data["amount"])
        hits == {r \in 1..Len(Rules) : AnyKeyword(description, Rules[r].keywords)}
    IN  IF ~amount.ok THEN Exc("InvalidOperation", "conversion syntax", "amount")
        ELSE IF hits # {} THEN Returned(Rules[CHOOSE r \in hits : \A q \in hits : r <= q].category)
        ELSE IF IsMajor(amount.d) THEN Returned("major_expense")
        ELSE Returned("other")

categorize_expense(expense_data) ==
    LET description == Lower(expense_data["description"].s)
        amount == ParseDecimal(expense_data["amount"])
        hits == {r \in 1..Len(Rules) : AnyKeyword(description, Rules[r].keywords)}
    IN  IF ~amount.ok THEN Exc("InvalidOperation", "conversion syntax", "amount")
        ELSE IF hits # {} THEN Returned(Rules[CHOOSE r \in hits : \A q \in hits : r <= q].category)
        ELSE IF IsMajor(amount.d) THEN Returned("major_expense")
        ELSE Returned("other")

\* the descriptions categorised
CategorizeDescriptions ==
    {Str(<<"G", "r", "o", "c", "e", "r", "y", " ", "s", "t", "o", "r", "e", " ", "r", "u", "n">>),
     Str(<<"U", "b", "e", "r", " ", "t", "o", " ", "r", "e", "s", "t", "a", "u", "r", "a", "n", "t">>),
     Str(<<"g", "a", "s", " ", "f", "o", "r", " ", "t", "h", "e", " ", "s", "h", "o", "w">>),
     Str(<<"p", "h", "o", "n", "e", " ", "g", "a", "m", "e">>),
     Str(<<"L", "a", "s", " ", "V", "e", "g", "a", "s">>),
     Str(<<"r", "e", "n", "t">>),
     Str(<<"M", "O", "V", "I", "E">>),
     Str(<<>>),
     Str(<<"w", "a", "t", "e", "r", " ", "b", "i", "l", "l">>),
     Str(<<"S", "h", "o", "w", " ", "a", "t", " ", "t", "h", "e", " ", "c", "o", "n", "c", "e", "r", "t">>)}

\* the amounts categorised: below, at and above 1000, and one that is no number
CategorizeAmounts ==
    {Num(4500, -2), Num(99999, -2), Num(1000, 0), Num(100000, -2), Num(100001, -2),
     Num(1500, 0), Text("abc")}

CategorizeInit ==
    /\ SvcIdle
    /\ parg \in {[expense_data |-> [description |-> d, amount |-> a]] :
                    d \in CategorizeDescriptions, a \in CategorizeAmounts}
    /\ pout = None
    /\ lpc = "start"

\* categorize_expense(expense_data)
Categorize ==
    /\ lpc = "start"
    /\ pout' = categorize_expense(parg.expense_data)
    /\ lpc' = "done"
    /\ UNCHANGED <<parg, svcVars, pureVars, query>>

CategorizeNext == Categorize

SpecCategorize == CategorizeInit /\ [][CategorizeNext]_vars

-----------------------------------------------------------------------------
(* The specification's vocabulary                                          *)

\* the failure kind of a result: the exception's type and message, named as
\* the error taxonomy names them
Kind(r) ==
    IF ~IsExc(r) THEN "ok"
    ELSE IF r.type # "InvalidExpenseError" THEN
        CASE r.type = "CategoryNotFoundError" -> "CategoryNotFound"
          [] r.type = "BudgetLimitExceededError" -> "BudgetLimitExceeded"
          [] OTHER -> r.type
    ELSE
        CASE r.msg = "Missing required field" -> "MissingField"
          [] r.msg = "Amount must be greater than 0" -> "InvalidAmount"
          [] r.msg = "Invalid amount format" -> "InvalidAmount"
          [] r.msg = "Invalid date format" -> "InvalidDate"
          [] r.msg = "Description exceeds maximum length" -> "DescriptionTooLong"
          [] r.msg = "Maximum number of tags exceeded" -> "TooManyTags"
          [] r.msg = "Tags must be strings" -> "InvalidTagType"
          [] r.msg = "Tags must be a list" -> "InvalidTagType"
          [] r.msg = "Empty tags are not allowed" -> "EmptyTag"
          [] OTHER -> r.msg

\* InvalidTagType and EmptyTag share one place in the order of the checks
KindClass(k) == IF k \in {"InvalidTagType", "EmptyTag"} THEN "InvalidTag" ELSE k

PositiveAmount(x) == x.t = "num" /\ x.d.coef > 0

BlankOrNoStr(tag) == tag.t # "str" \/ \A i \in 1..Len(tag.s) : tag.s[i] = " "

\* the checks of the validator as the specification lists them, in its order
SpecVerdict(raw) ==
    IF \E k \in {"amount", "category", "date", "description"} : k \notin DOMAIN raw
    THEN "MissingField"
    ELSE IF ~PositiveAmount(raw["amount"]) THEN "InvalidAmount"
    ELSE IF raw["date"].t = "text" THEN "InvalidDate"
    ELSE IF Len(raw["description"].s) > 500 THEN "DescriptionTooLong"
    ELSE IF "tags" \notin DOMAIN raw THEN "ok"
    ELSE IF Len(raw["tags"].items) > 10 THEN "TooManyTags"
    ELSE IF \E i \in 1..Len(raw["tags"].items) : BlankOrNoStr(raw["tags"].items[i])
    THEN "InvalidTag"
    ELSE "ok"

SpecValid(raw) == SpecVerdict(raw) = "ok"

\* the tags, when given, are a list, as the data model has them
TagsAreList(raw) == "tags" \in DOMAIN raw => raw["tags"].t = "list"

\* x rounded half up to 2 places, x > 0
RoundHalfUp2(d) ==
    IF d.exp >= -2
    THEN Dec(CoefAt(d, -2), -2)
    ELSE LET div == Pow10(-2 - d.exp)
         IN  Dec((2 * d.coef + div) \div (2 * div), -2)

DecEq(a, b) == ~DecGT(a, b) /\ ~DecGT(b, a)

HasCall(c, name) == \E i \in 1..Len(calls[c].trace) : calls[c].trace[i] = name

Begun(c) == calls[c].pc # "idle"

Wrote(c) == calls[c].pc = "done" /\ calls[c].result.t = "Expense"

Failed(c, kind) == calls[c].pc = "done" /\ IsExc(calls[c].result) /\ Kind(calls[c].result) = kind

AmountOf(c) == calls[c].data["amount"].d

\* the validated date of the call's expense
DateOf(c) == calls[c].data["date"].dt

LimitOf(c) == calls[c].category.budget_limit

\* the persisted amounts of a user and category dated within a month
MonthTotal(es, user_id, key, month) ==
    SumAmounts(SelectSeq(es, LAMBDA e :
        /\ e.user_id = user_id
        /\ e.data["category"] = key
        /\ e.data["date"].dt.month = month))

\* every persisted expense beyond the initial ones is the result of one call
OneExpensePerWrite ==
    Len(expenses) = Len(InitExpenses) + Cardinality({c \in Calls : Wrote(c)})

-----------------------------------------------------------------------------
(* Claims                                                                  *)

\* C1: create is invoked only after the validator succeeded and then the
\* budget check succeeded; a call whose validation fails has made no
\* repository call; a call whose budget check fails writes no expense and
\* fails with the kind of that failure.
C1_CreateOnlyAfterChecks ==
    /\ \A c \in Calls : HasCall(c, "create") =>
        /\ SpecValid(calls[c].data)
        /\ calls[c].category # None
        /\ \/ /\ calls[c].trace = <<"get_category", "get_category_total", "create">>
              /\ calls[c].total # None
              /\ DecLE(DecAdd(calls[c].total, AmountOf(c)), LimitOf(c))
           \/ /\ calls[c].trace = <<"get_category", "create">>
              /\ ~Truthy(LimitOf(c))
    /\ \A c \in Calls : Begun(c) /\ ~SpecValid(calls[c].data) =>
        /\ calls[c].trace = <<>>
        /\ calls[c].pc = "done"
        /\ IsExc(calls[c].result)
        /\ Kind(calls[c].result) \notin {"CategoryNotFound", "BudgetLimitExceeded", "RepositoryError"}
    /\ \A c \in Calls :
        calls[c].total # None /\ DecGT(DecAdd(calls[c].total, AmountOf(c)), LimitOf(c)) =>
            Failed(c, "BudgetLimitExceeded") /\ ~HasCall(c, "create")
    /\ \A c \in Calls : Failed(c, "BudgetLimitExceeded") \/ Failed(c, "CategoryNotFound") =>
        ~HasCall(c, "create") /\ ~Wrote(c)
    /\ OneExpensePerWrite

\* C1 witness: one call wrote after both checks, another failed the budget
\* check and wrote nothing
C1_Witness ==
    \E c, d \in Calls :
        /\ Wrote(c)
        /\ calls[c].trace = <<"get_category", "get_category_total", "create">>
        /\ Failed(d, "BudgetLimitExceeded")
        /\ Len(expenses) = Len(InitExpenses) + 1

\* C2: for a category that has a budget_limit the check succeeds if and only
\* if current_total + candidate_amount <= budget_limit, and fails with
\* BudgetLimitExceeded otherwise (the total is 0 when nothing was counted).
C2_BudgetCheckIff ==
    \A c \in Calls :
        calls[c].category # None /\ LimitOf(c) # None =>
            LET seen == IF calls[c].total = None THEN Dec(0, 0) ELSE calls[c].total
                within == DecLE(DecAdd(seen, AmountOf(c)), LimitOf(c))
            IN  /\ HasCall(c, "create") => within
                /\ Failed(c, "BudgetLimitExceeded") => ~within
                /\ calls[c].total # None =>
                       (within <=> HasCall(c, "create")) /\ (~within <=> Failed(c, "BudgetLimitExceeded"))

\* C3: a call for a category the repository does not return for the user
\* fails with CategoryNotFound, never calls create and writes nothing.
C3_MissingCategoryNoWrite ==
    /\ \A c \in Calls :
        /\ Begun(c)
        /\ SpecValid(calls[c].data)
        /\ categories[<<calls[c].user_id, calls[c].data["category"]>>] = None
        /\ ~Failed(c, "RepositoryError")
        => /\ calls[c].pc \in {"get_category", "done"}
           /\ calls[c].pc = "done" => Failed(c, "CategoryNotFound")
           /\ ~HasCall(c, "create")
           /\ ~HasCall(c, "get_category_total")
           /\ ~Wrote(c)
    /\ OneExpensePerWrite

\* C3 witness: a call for the absent category has failed and the persisted
\* expenses are the initial ones
C3_Witness ==
    \E c \in Calls :
        /\ Failed(c, "CategoryNotFound")
        /\ calls[c].data["category"] = "Ghost"
        /\ expenses = InitExpenses

\* C4: each call that writes under a limit passed the check on the total it
\* read (total + amount <= limit); two calls that both read before either
\* wrote can nevertheless leave a month total above the limit (the witness).
C4_EachWriterPassedAlone ==
    \A c \in Calls :
        (calls[c].pc = "create" \/ Wrote(c)) /\ HasCall(c, "get_category_total") =>
            /\ calls[c].total # None
            /\ DecLE(DecAdd(calls[c].total, AmountOf(c)), LimitOf(c))

\* C4 witness: two calls of one user, category and month read the same total,
\* both passed, both wrote, and the month's persisted total exceeds the limit
C4_JointlyExceed ==
    \E c, d \in Calls :
        /\ c # d
        /\ Wrote(c) /\ Wrote(d)
        /\ calls[c].user_id = calls[d].user_id
        /\ calls[c].data["category"] = "Food" /\ calls[d].data["category"] = "Food"
        /\ DateOf(c).month = DateOf(d).month
        /\ calls[c].start.month = DateOf(c).month /\ calls[d].start.month = DateOf(d).month
        /\ calls[c].total # None /\ calls[c].total = calls[d].total
        /\ DecLE(DecAdd(calls[c].total, AmountOf(c)), LimitOf(c))
        /\ DecLE(DecAdd(calls[d].total, AmountOf(d)), LimitOf(d))
        /\ DecGT(MonthTotal(expenses, calls[c].user_id, "Food", DateOf(c).month), LimitOf(c))

\* C5: the comparison is skipped exactly when the category's budget_limit is
\* absent; a limit of 0 is enforced, so an amount > 0 under a limit of 0 fails
\* with BudgetLimitExceeded.
C5_SkippedOnlyWhenAbsent ==
    \A c \in Calls :
        /\ calls[c].category # None =>
               (~HasCall(c, "get_category_total") <=> LimitOf(c) = None)
        /\ calls[c].category # None /\ LimitOf(c) # None /\ ~DecTruthy(LimitOf(c))
           /\ AmountOf(c).coef > 0 =>
               ~HasCall(c, "create")

\* C6: the current_total the budget check uses is the sum of the persisted
\* amounts of the user and category within the calendar month that contains
\* the expense's own date, whatever the month of the call.
C6_TotalOfExpenseMonth ==
    [][\A c \in Calls :
          calls[c].pc = "get_category_total" /\ calls'[c].total # None =>
              DecEq(calls'[c].total,
                    MonthTotal(expenses, calls[c].user_id, calls[c].data["category"],
                               DateOf(c).month))]_vars

\* C7: every expense handed to repository.create has an amount with exactly
\* 2 fractional digits that is greater than 0.
C7_PersistedAmountPositive ==
    \A c \in Calls :
        calls[c].processed # None =>
            /\ calls[c].processed["amount"].d.exp = -2
            /\ calls[c].processed["amount"].d.coef > 0

\* C8: the normalized amount has exactly 2 fractional digits and equals the
\* input rounded half up to 2 places.
C8_RoundHalfUp ==
    ppc = "processed" =>
        /\ pproc["amount"].d.exp = -2
        /\ pproc["amount"].d = RoundHalfUp2(praw["amount"].d)

\* C9: with all other fields valid, validate fails with InvalidAmount for the
\* amounts 0, -5 and "abc" and succeeds for 0.01.
C9_InvalidAmountKinds ==
    ppc # "start" /\ DOMAIN praw = {"amount", "category", "date", "description"}
    /\ SpecValid([praw EXCEPT !["amount"] = Num(1, -2)]) =>
        /\ praw["amount"] \in {Num(0, 0), Num(-5, 0), Text("abc")} =>
               IsExc(pres) /\ Kind(pres) = "InvalidAmount"
        /\ praw["amount"] = Num(1, -2) => pres = None

\* C10: validate reports the first violated check in the order MissingField,
\* InvalidAmount, InvalidDate, DescriptionTooLong, TooManyTags,
\* InvalidTagType/EmptyTag, and succeeds exactly when no check is violated.
C10_FailFastOrder ==
    ppc # "start" /\ TagsAreList(praw) =>
        /\ KindClass(Kind(pres)) = SpecVerdict(praw)
        /\ pres = None <=> SpecValid(praw)

-----------------------------------------------------------------------------
(* Claims C11 - C20                                                        *)

\* how often call c invoked the repository operation name
CountOf(c, name) ==
    Cardinality({i \in 1..Len(calls[c].trace) : calls[c].trace[i] = name})

\* C11: when a repository call made by create_expense (category lookup, total
\* lookup or create) raises, create_expense ends with that very error, returns
\* no expense, persists nothing and calls the repository no further; create is
\* invoked at most once per call.
C11_RepositoryFailurePropagates ==
    /\ \A c \in Calls :
        /\ CountOf(c, "create") <= 1
        /\ calls[c].raised # None =>
            /\ calls[c].pc = "done"
            /\ calls[c].result = calls[c].raised
            /\ Kind(calls[c].result) = "RepositoryError"
            /\ ~Wrote(c)
            /\ calls[c].trace[Len(calls[c].trace)] = calls[c].raised.arg
            /\ CountOf(c, calls[c].raised.arg) = 1
    /\ OneExpensePerWrite

\* C11 witness: one call ended with the failure of repository.create, another
\* with the failure of a lookup, and nothing was persisted
C11_Witness ==
    \E c, d \in Calls :
        /\ calls[c].raised # None /\ calls[c].raised.arg = "create"
        /\ Failed(c, "RepositoryError")
        /\ calls[d].raised # None /\ calls[d].raised.arg = "get_category_total"
        /\ Failed(d, "RepositoryError")
        /\ expenses = InitExpenses

\* call c returns an expense in this step
Writes(c) == calls[c].pc # "done" /\ calls'[c].pc = "done" /\ calls'[c].result.t = "Expense"

\* C12: in every step of create_expense and get_user_expenses calls the persisted
\* expenses keep every earlier record unchanged and in place; they gain exactly
\* one record, the one returned, when a create_expense call succeeds, and none
\* otherwise (a failing create_expense, any step of get_user_expenses); the
\* categories and their budget limits stay as they are.
C12_PersistedOnlyGrow ==
    [][/\ categories' = categories
       /\ Len(expenses') >= Len(expenses)
       /\ SubSeq(expenses', 1, Len(expenses)) = expenses
       /\ \A c \in Calls : Writes(c) => expenses' = Append(expenses, calls'[c].result)
       /\ (\A c \in Calls : ~Writes(c)) => expenses' = expenses
       /\ query' # query => expenses' = expenses]_vars

\* C12 witness: one create_expense call succeeded, another failed, and a
\* get_user_expenses call returned the user's two expenses; the persisted
\* expenses are the initial ones and the one created
C12_Witness ==
    /\ \E c, d \in Calls : Wrote(c) /\ Failed(d, "BudgetLimitExceeded")
                            /\ expenses = Append(InitExpenses, calls[c].result)
    /\ query.pc = "done"
    /\ query.result.t = "list"
    /\ Len(query.result.items) = 2

\* the values an exception carries besides its fixed text
Carried(r) == <<r.arg>>

\* the budget check of call c read the total and found the limit exceeded
OverLimit(c) ==
    /\ calls[c].pc = "done"
    /\ calls[c].total # None
    /\ calls[c].raised = None
    /\ ~HasCall(c, "create")

\* C13 as stated: the BudgetLimitExceeded of a failing budget check carries the
\* category name, the budget limit and the would-be total.
C13_CarriesNameLimitTotal ==
    \A c \in Calls : OverLimit(c) =>
        /\ Failed(c, "BudgetLimitExceeded")
        /\ Len(Carried(calls[c].result)) = 3
        /\ Carried(calls[c].result)[1] = calls[c].category.name
        /\ Carried(calls[c].result)[2] = LimitOf(c)
        /\ Carried(calls[c].result)[3] = DecAdd(calls[c].total, AmountOf(c))

\* C13 amended: the BudgetLimitExceeded of a failing budget check carries the
\* name of the category and nothing else; the would-be total it was raised for
\* is above the limit.
C13_CarriesNameOnly ==
    \A c \in Calls : OverLimit(c) =>
        /\ Failed(c, "BudgetLimitExceeded")
        /\ Carried(calls[c].result) = <<calls[c].category.name>>
        /\ DecGT(DecAdd(calls[c].total, AmountOf(c)), LimitOf(c))

\* C13 witness: a call for Food failed its budget check
C13_Witness ==
    \E c \in Calls : OverLimit(c) /\ calls[c].result.type = "BudgetLimitExceededError"
                      /\ calls[c].category.name = "Food"

\* the sum of the amounts of a list of expenses
RECURSIVE SumOfAmounts(_)
SumOfAmounts(es) ==
    IF es = <<>> THEN Dec(0, 0) ELSE DecAdd(Head(es).amount, SumOfAmounts(Tail(es)))

\* the sum of the values of a mapping
RECURSIVE SumOfValues(_)
SumOfValues(d) ==
    IF DOMAIN d = {} THEN Dec(0, 0)
    ELSE LET k == CHOOSE x \in DOMAIN d : TRUE
         IN  DecAdd(d[k], SumOfValues([x \in DOMAIN d \ {k} |-> d[x]]))

\* C14: the total of a summary equals the sum of the amounts of the expenses
\* summarised, the sum of the values of categories and the sum of the values
\* of daily_totals.
C14_TotalIsEverySum ==
    lpc = "done" =>
        /\ DecEq(pout.total, SumOfAmounts(parg.expenses))
        /\ DecEq(pout.total, SumOfValues(pout.categories))
        /\ DecEq(pout.total, SumOfValues(pout.daily_totals))

\* C14 witness: three expenses were summarised, two of one category and day,
\* one without tags, into a total of 35.50
C14_Witness ==
    /\ lpc = "done"
    /\ Len(parg.expenses) = 3
    /\ Cardinality(DOMAIN pout.categories) = 2
    /\ Cardinality(DOMAIN pout.daily_totals) = 2
    /\ \E i \in 1..3 : parg.expenses[i].tags = <<>>
    /\ pout.total = Dec(3550, -2)

\* two mappings have the same keys and numerically equal values
SameMapping(a, b) ==
    /\ DOMAIN a = DOMAIN b
    /\ \A k \in DOMAIN a : DecEq(a[k], b[k])

SameSummary(a, b) ==
    /\ DecEq(a.total, b.total)
    /\ SameMapping(a.categories, b.categories)
    /\ SameMapping(a.tags, b.tags)
    /\ SameMapping(a.daily_totals, b.daily_totals)
    /\ a.count = b.count

\* the list es in the order p
Permuted(es, p) == [i \in 1..Len(es) |-> es[p[i]]]

\* C15: the summary of a list is the summary of each of its permutations:
\* total, categories, tags, daily_totals and count do not depend on the order
\* of the input.
C15_OrderIndependent ==
    lpc = "done" =>
        \A p \in Permutations(1..Len(parg.expenses)) :
            SameSummary(_generate_summary(Permuted(parg.expenses, p)), pout)

\* C15 witness: three different expenses sharing a category, a tag and a day
\* were summarised
C15_Witness ==
    /\ lpc = "done"
    /\ Len(parg.expenses) = 3
    /\ Cardinality({parg.expenses[i] : i \in 1..3}) = 3
    /\ Cardinality(DOMAIN pout.categories) = 2
    /\ "a" \in DOMAIN pout.tags
    /\ DecEq(pout.tags["a"], Dec(21, 0))

\* C16: the summary of the empty list has total 0, count 0 and empty
\* mappings; the count of every summary is the length of the list.
C16_EmptyAndCount ==
    lpc = "done" =>
        /\ pout.count = Len(parg.expenses)
        /\ parg.expenses = <<>> =>
            /\ DecEq(pout.total, Dec(0, 0))
            /\ pout.count = 0
            /\ DOMAIN pout.categories = {}
            /\ DOMAIN pout.tags = {}
            /\ DOMAIN pout.daily_totals = {}

\* C16 witness: the empty list was summarised
C16_Witness ==
    lpc = "done" /\ parg.expenses = <<>> /\ pout.count = 0 /\ pout.total = Dec(0, -2)

\* the call returned an analysis (it did not raise)
IsAnalysis(r) == "total_spent" \in DOMAIN r

\* C17 as stated: for every period_days <= 0 and every list, the empty one
\* included, analyze fails with InvalidPeriod and gives no analysis.
C17_InvalidPeriodRejected ==
    lpc = "done" /\ parg.period_days <= 0 =>
        ~IsAnalysis(pout) /\ pout.type = "InvalidPeriod"

\* the amounts of a list of expense dicts
AmountsOf(es) == [i \in 1..Len(es) |-> ParseDecimal(es[i]["amount"]).d]

\* the positions of es that hold an expense of the category of position i
SameCategory(es, i) == {j \in 1..Len(es) : es[j]["category"] = es[i]["category"]}

RECURSIVE SumOver(_, _)
SumOver(amounts, I) ==
    IF I = {} THEN Dec(0, 0)
    ELSE LET j == CHOOSE x \in I : TRUE
         IN  DecAdd(amounts[j], SumOver(amounts, I \ {j}))

\* the amount at position i is strictly greater than twice the average amount
\* of its category: amount > 2 * sum / n, that is n * amount > 2 * sum
AboveTwiceAverage(es, i) ==
    LET I == SameCategory(es, i)
        sum == SumOver(AmountsOf(es), I)
        e == Min(sum.exp, AmountsOf(es)[i].exp)
    IN  Cardinality(I) * CoefAt(AmountsOf(es)[i], e) > 2 * CoefAt(sum, e)

\* what unusual_expenses holds of an expense dict d
Flagged(d) ==
    [amount |-> ParseDecimal(d["amount"]).d, category |-> d["category"],
     date |-> d["date"], description |-> d["description"]]

\* the positions of es from i on, in order, that are above twice the average
RECURSIVE PositionsAbove(_, _)
PositionsAbove(es, i) ==
    IF i > Len(es) THEN <<>>
    ELSE (IF AboveTwiceAverage(es, i) THEN <<i>> ELSE <<>>) \o PositionsAbove(es, i + 1)

\* C18: unusual_expenses holds, in input order, exactly the expenses whose
\* amount is strictly greater than twice the average amount of their own
\* category: of 10, 10, 40 in one category none is flagged, of 10, 10, 41 the
\* 41 is.
C18_FlagsAboveTwiceAverage ==
    lpc = "done" /\ IsAnalysis(pout) /\ parg.expenses # <<>> =>
        LET es == parg.expenses
            at == PositionsAbove(es, 1)
        IN  /\ pout.unusual_expenses = [k \in 1..Len(at) |-> Flagged(es[at[k]])]
            /\ AmountsOf(es) = <<Dec(10, 0), Dec(10, 0), Dec(40, 0)>> =>
                   pout.unusual_expenses = <<>>
            /\ AmountsOf(es) = <<Dec(10, 0), Dec(10, 0), Dec(41, 0)>> =>
                   pout.unusual_expenses = <<Flagged(es[3])>>

\* C18 witness: 10, 10 and 41 of one category were analysed and the 41 alone
\* was flagged
C18_Witness ==
    /\ lpc = "done"
    /\ IsAnalysis(pout)
    /\ Len(parg.expenses) = 3
    /\ AmountsOf(parg.expenses) = <<Dec(10, 0), Dec(10, 0), Dec(41, 0)>>
    /\ Len(pout.unusual_expenses) = 1
    /\ pout.unusual_expenses[1]["amount"] = Dec(41, 0)

\* the rule table's categories in their order
RuleOrder == <<"food", "transport", "utilities", "entertainment">>

KeywordsOf(category) ==
    Rules[CHOOSE r \in 1..Len(Rules) : Rules[r].category = category].keywords

\* a keyword of the category occurs in the lower-cased description
MatchesRule(expense_data, category) ==
    \E k \in 1..Len(KeywordsOf(category)) :
        Contains(Lower(expense_data["description"].s), KeywordsOf(category)[k])

MatchesNoRule(expense_data) ==
    \A i \in 1..Len(RuleOrder) : ~MatchesRule(expense_data, RuleOrder[i])

NumericAmount(expense_data) == expense_data["amount"].t = "num"

GroceryStoreRun ==
    Str(<<"G", "r", "o", "c", "e", "r", "y", " ", "s", "t", "o", "r", "e", " ", "r", "u", "n">>)

\* C19: for an expense with a numeric amount, categorize returns the first
\* category, in the order food, transport, utilities, entertainment, one of
\* whose keywords is a substring of the lower-cased description; "Grocery
\* store run" with amount 45.00 gives food.
C19_FirstMatchingRule ==
    lpc = "done" /\ NumericAmount(parg.expense_data) =>
        /\ \A i \in 1..Len(RuleOrder) :
               /\ MatchesRule(parg.expense_data, RuleOrder[i])
               /\ \A j \in 1..(i - 1) : ~MatchesRule(parg.expense_data, RuleOrder[j])
               => pout = Returned(RuleOrder[i])
        /\ parg.expense_data = [description |-> GroceryStoreRun, amount |-> Num(4500, -2)]
               => pout = Returned("food")

\* C19 witness: a description with a transport keyword and, after it, a food
\* keyword in another case was categorised as food
C19_Witness ==
    /\ lpc = "done"
    /\ MatchesRule(parg.expense_data, "food")
    /\ MatchesRule(parg.expense_data, "transport")
    /\ parg.expense_data["description"].s[1] = "U"
    /\ pout = Returned("food")

\* C20: for an expense with a numeric amount whose description matches no
\* rule, categorize returns major_expense exactly when the amount is strictly
\* greater than 1000 (exactly 1000 gives other) and other otherwise; it never
\* returns anything but the four rule categories, major_expense and other.
C20_FallbackByAmount ==
    lpc = "done" /\ NumericAmount(parg.expense_data) =>
        LET amount == parg.expense_data["amount"].d
        IN  /\ MatchesNoRule(parg.expense_data) =>
                /\ pout = Returned("major_expense") <=> CoefAt(amount, -2) > 100000
                /\ pout = Returned("other") <=> CoefAt(amount, -2) <= 100000
            /\ pout.t = "str"
            /\ pout.v \in {RuleOrder[i] : i \in 1..Len(RuleOrder)} \cup {"major_expense", "other"}

\* C20 witness: a description matching no rule with amount 1000.00 was
\* categorised as other
C20_Witness ==
    /\ lpc = "done"
    /\ MatchesNoRule(parg.expense_data)
    /\ parg.expense_data["amount"] = Num(100000, -2)
    /\ pout = Returned("other")

-----------------------------------------------------------------------------
(* Claims C21 - C30                                                        *)

\* what highest_expense holds of an expense dict d
Highest(d) ==
    [amount |-> ParseDecimal(d["amount"]).d, category |-> d["category"], date |-> d["date"]]

\* C21: for a non-empty list, highest_expense is the expense of the list whose
\* amount no other amount exceeds and which comes before every other expense
\* of the same amount.
C21_HighestFirstSeen ==
    lpc = "done" /\ IsAnalysis(pout) /\ parg.expenses # <<>> =>
        LET es == parg.expenses
            amounts == AmountsOf(es)
        IN  \E i \in 1..Len(es) :
                /\ pout.highest_expense = Highest(es[i])
                /\ \A j \in 1..Len(es) : ~DecGT(amounts[j], amounts[i])
                /\ \A j \in 1..(i - 1) : DecGT(amounts[i], amounts[j])

\* C21 witness: 10, then 40.0 of Misc, then 40 of Food were analysed and the
\* 40.0 of Misc is the highest expense
C21_Witness ==
    /\ lpc = "done"
    /\ IsAnalysis(pout)
    /\ Len(parg.expenses) = 3
    /\ AmountsOf(parg.expenses) = <<Dec(10, 0), Dec(400, -1), Dec(40, 0)>>
    /\ pout.highest_expense = Highest(parg.expenses[2])
    /\ pout.highest_expense["category"] = "Misc"

\* the number of expenses of category k in es
CountIn(es, k) == Cardinality({j \in 1..Len(es) : es[j]["category"] = k})

\* the position of the first expense of category k in es
FirstOf(es, k) ==
    CHOOSE j \in 1..Len(es) :
        es[j]["category"] = k /\ \A h \in 1..(j - 1) : es[h]["category"] # k

\* C22: for a non-empty list, most_frequent_category is a category of the
\* list that no category outnumbers, and among the categories of that count
\* the one whose first expense comes earliest.
C22_MostFrequentFirstSeen ==
    lpc = "done" /\ IsAnalysis(pout) /\ parg.expenses # <<>> =>
        LET es == parg.expenses
            ks == {es[j]["category"] : j \in 1..Len(es)}
        IN  \E k \in ks :
                /\ pout.most_frequent_category = k
                /\ \A q \in ks : CountIn(es, q) <= CountIn(es, k)
                /\ \A q \in ks \ {k} :
                       CountIn(es, q) = CountIn(es, k) => FirstOf(es, k) < FirstOf(es, q)

\* C22 witness: a Misc expense, then a Food expense were analysed: both
\* categories count one and Misc, seen first, is reported
C22_Witness ==
    /\ lpc = "done"
    /\ IsAnalysis(pout)
    /\ Len(parg.expenses) = 2
    /\ parg.expenses[1]["category"] = "Misc"
    /\ parg.expenses[2]["category"] = "Food"
    /\ pout.most_frequent_category = "Misc"

\* C23: analyze on the empty list with period_days > 0 does not fail and
\* returns total_spent 0, average_daily 0, no highest_expense, no
\* most_frequent_category, an empty category_distribution and an empty list
\* of unusual_expenses.
C23_EmptyListAnalysis ==
    lpc = "done" /\ parg.expenses = <<>> /\ parg.period_days > 0 =>
        /\ IsAnalysis(pout)
        /\ DecEq(pout.total_spent, Dec(0, 0))
        /\ DecEq(pout.average_daily, Dec(0, 0))
        /\ pout.highest_expense = None
        /\ pout.most_frequent_category = None
        /\ DOMAIN pout.category_distribution = {}
        /\ Len(pout.unusual_expenses) = 0

\* C23 witness: the empty list was analysed over 30 days
C23_Witness ==
    /\ lpc = "done"
    /\ parg.expenses = <<>>
    /\ parg.period_days = 30
    /\ IsAnalysis(pout)
    /\ pout.total_spent = Dec(0, -2)

\* core is s without its leading and trailing whitespace
IsTrimOf(core, s) ==
    \E a \in 0..Len(s) :
        /\ \A i \in 1..a : s[i] \in Whitespace
        /\ core = SubSeq(s, a + 1, a + Len(core))
        /\ a + Len(core) <= Len(s)
        /\ \A i \in (a + Len(core) + 1)..Len(s) : s[i] \in Whitespace
        /\ core # <<>> => core[1] \notin Whitespace /\ core[Len(core)] \notin Whitespace

\* low is s with every upper-case letter replaced by its lower-case letter
IsLowerOf(low, s) ==
    /\ Len(low) = Len(s)
    /\ \A i \in 1..Len(s) :
           IF \E u \in 1..Len(UpperCase) : UpperCase[u] = s[i]
           THEN \E u \in 1..Len(UpperCase) : UpperCase[u] = s[i] /\ low[i] = LowerCase[u]
           ELSE low[i] = s[i]

\* C24: the normalized record has a tags key exactly when the validated raw
\* record has one; its tags are as many as the raw ones and the i-th is the
\* i-th raw tag trimmed and lower-cased, duplicates being kept.
C24_TagsKeptInOrder ==
    ppc = "processed" =>
        /\ "tags" \in DOMAIN pproc <=> "tags" \in DOMAIN praw
        /\ "tags" \in DOMAIN praw =>
            /\ pproc["tags"].t = "list"
            /\ Len(pproc["tags"].items) = Len(praw["tags"].items)
            /\ \A i \in 1..Len(praw["tags"].items) :
                   \E core \in {SubSeq(praw["tags"].items[i].s, a, b) :
                                    a, b \in 1..Len(praw["tags"].items[i].s)} :
                       /\ IsTrimOf(core, praw["tags"].items[i].s)
                       /\ IsLowerOf(pproc["tags"].items[i].s, core)

\* C24 witness: the tags " Fb ", "fb", "A" were normalized to "fb", "fb", "a"
C24_Witness ==
    /\ ppc = "processed"
    /\ "tags" \in DOMAIN praw
    /\ praw["tags"].items = <<Str(<<" ", "F", "b", " ">>), Str(<<"f", "b">>), Str(<<"A">>)>>
    /\ pproc["tags"].items = <<Str(<<"f", "b">>), Str(<<"f", "b">>), Str(<<"a">>)>>

\* the persisted expense e is of the user, dates and category of args
Selected(e, args) ==
    /\ e.user_id = args[1]
    /\ args[2] = None \/ ~DTLess(e.data["date"].dt, args[2])
    /\ args[3] = None \/ ~DTLess(args[3], e.data["date"].dt)
    /\ args[4] = None \/ e.data["category"] = args[4].k

\* the sequence xs holds exactly the elements of es that are Selected, in
\* their order
IsSelection(xs, es, args) ==
    \E f \in [1..Len(xs) -> 1..Len(es)] :
        /\ \A i \in 1..Len(xs) : xs[i] = es[f[i]] /\ Selected(es[f[i]], args)
        /\ \A i, j \in 1..Len(xs) : i < j => f[i] < f[j]
        /\ \A k \in 1..Len(es) : Selected(es[k], args) => \E i \in 1..Len(xs) : f[i] = k

\* C25: get_user_expenses hands its four arguments to get_by_user as they
\* were given; when the read returns, the call returns that very list, empty
\* when nothing matches; no step of the call changes the persisted expenses
\* or the categories.
C25_PureDelegation ==
    [][/\ query'.pc = "get_by_user" /\ query.pc # "get_by_user" =>
            /\ query'.passed = query'.args
            /\ expenses' = expenses /\ categories' = categories
       /\ query.pc = "get_by_user" /\ query'.pc = "done" /\ query'.raised = None =>
            /\ query'.result.t = "list"
            /\ IsSelection(query'.result.items, expenses, query.args)
            /\ expenses' = expenses /\ categories' = categories]_vars

\* C25 witness: a call whose end date lies before every persisted expense
\* returned the empty list, after a create_expense call had written
C25_Witness ==
    /\ query.pc = "done"
    /\ query.raised = None
    /\ query.args = <<"u1", None, DT(1, 1, 0), None>>
    /\ query.result = List(<<>>)
    /\ \E c \in Calls : Wrote(c)

\* the months an expense can be dated in
Months == 1..MaxMonth

\* C26 as stated: when the calls are made one after the other, the persisted
\* amounts of a user's category with a budget_limit, dated within any one
\* calendar month, never sum to more than that limit (the initial expenses do
\* not).
C26_SerialWithinLimit ==
    \A uk \in DOMAIN categories :
        categories[uk] # None /\ categories[uk].budget_limit # None =>
            \A m \in Months :
                DecLE(MonthTotal(expenses, uk[1], uk[2], m), categories[uk].budget_limit)

\* the tag t occurs in the tag list ts
HasTag(ts, t) == \E i \in 1..Len(ts) : ts[i] = t

\* the sum of the amounts of the expenses of es that carry the tag t
RECURSIVE TaggedTotal(_, _)
TaggedTotal(es, t) ==
    IF es = <<>> THEN Dec(0, 0)
    ELSE DecAdd(IF HasTag(Head(es).tags, t) THEN Head(es).amount ELSE Dec(0, 0),
                TaggedTotal(Tail(es), t))

\* C27 as stated: the keys of tags are the tags carried by some expense, and
\* tags[t] is the sum of the amounts of the expenses that carry t, each
\* expense counted once however often its tag list holds t.
C27_TagTotalsCountOnce ==
    lpc = "done" =>
        /\ DOMAIN pout.tags =
               UNION {{parg.expenses[i].tags[j] : j \in 1..Len(parg.expenses[i].tags)} :
                         i \in 1..Len(parg.expenses)}
        /\ \A t \in DOMAIN pout.tags : DecEq(pout.tags[t], TaggedTotal(parg.expenses, t))

\* C28: no step of a create_expense call, successful or failed, changes the
\* raw record the caller gave: its amount, date and tags stay as given, and
\* the normalized amount is found in the processed copy only.
C28_RawRecordUnchanged ==
    [][\A c \in Calls :
          /\ calls[c].pc # "idle" => calls'[c].data = calls[c].data
          /\ calls'[c].processed # None =>
                 /\ calls'[c].data["amount"].t = "num"
                 /\ calls'[c].processed["amount"].t = "Decimal"]_vars

\* C28 witness: a call given the amount 0.004 and the tags " Fb", "fb" wrote
\* the amount 0.00 and the tags "fb", "fb", and another call failed; both
\* raw records are as given
C28_Witness ==
    \E c, d \in Calls :
        /\ Wrote(c)
        /\ calls[c].data["amount"] = Num(4, -3)
        /\ calls[c].data["tags"].items[1] = Str(<<" ", "F", "b">>)
        /\ calls[c].result.data["amount"].d = Dec(0, -2)
        /\ calls[c].result.data["tags"].items[1] = Str(<<"f", "b">>)
        /\ Failed(d, "BudgetLimitExceeded")
        /\ calls[d].data \in SvcRaws

\* every amount of the list is greater than 0
AllPositive(es) == \A i \in 1..Len(es) : AmountsOf(es)[i].coef > 0

\* xs is es restricted to some of its positions, in their order, each as
\* unusual_expenses holds it
IsFlaggedSubsequence(xs, es) ==
    \E f \in [1..Len(xs) -> 1..Len(es)] :
        /\ \A i \in 1..Len(xs) : xs[i] = Flagged(es[f[i]])
        /\ \A i, j \in 1..Len(xs) : i < j => f[i] < f[j]

C30_KeywordBeforeAmount ==
    lpc = "done" /\ NumericAmount(parg.expense_data) =>
        /\ ~MatchesNoRule(parg.expense_data) =>
            /\ pout.t = "str"
            /\ \E i \in 1..Len(RuleOrder) :
                   pout.v = RuleOrder[i] /\ MatchesRule(parg.expense_data, RuleOrder[i])
            /\ \A a \in {x \in CategorizeAmounts : x.t = "num"} :
                   categorize_expense([parg.expense_data EXCEPT !["amount"] = a]) = pout
        /\ pout = Returned("major_expense") => MatchesNoRule(parg.expense_data)

\* C30 witness: "gas for the show" with amount 1500 was categorised as
\* transport
C30_Witness ==
    /\ lpc = "done"
    /\ parg.expense_data["amount"] = Num(1500, 0)
    /\ MatchesRule(parg.expense_data, "transport")
    /\ MatchesRule(parg.expense_data, "entertainment")
    /\ pout = Returned("transport")

====
